---- MODULE Spec2Model ----
(***************************************************************************)
(* A model of zserge/lex: a state-machine driven scanner that turns a      *)
(* character source into a stream of tokens.  Two engines are modelled:    *)
(*   "bufio"     src/lex.go (both listings): bufio.Reader, one prevPos     *)
(*   "bufreader" src/unnamed/part_000: bufreader, a stack of prevPos       *)
(* Characters are one-character strings; a text is a sequence of them.     *)
(***************************************************************************)
EXTENDS Integers, Sequences, FiniteSets, TLC

VARIABLES
  impl,       \* which engine runs: "bufio" or "bufreader"
  src,        \* the characters the underlying io.Reader yields
  srcErr,     \* the error it returns once they are used up: "EOF" or "broken"
  lex,        \* the Lexer / lexer struct (r, eof, value, pos, prevPos, tokenPos)
  tokens,     \* the unbuffered channel: the token a blocked send is offering
  closed,     \* close(lex.tokens) has run
  state,      \* Run's loop variable: the state function to call next, or "nil"
  pc,         \* where the producer goroutine is
  received,   \* what the consumer has taken from the channel, in order
  sawClose,   \* the consumer's receive has reported the close
  published,  \* history: every token sent on the channel, in order
  pubSpan,    \* history: per published token, the span it was cut from
  hist,       \* history: what next() returned since the last emit/ignore, minus backups
  done,       \* history: the input characters emitted or ignored so far
  yield,      \* history: every emitted text and discarded span, concatenated
  before,     \* history: Position and Scan Buffer just before the latest next()
  lastOp,     \* history: the latest engine call
  prevOp,     \* history: the engine call before it
  ret,        \* history: what the latest next()/peek() returned
  nops,       \* history: engine calls made so far
  closes      \* history: how many times the channel was closed

vars == <<impl, src, srcErr, lex, tokens, closed, state, pc, received, sawClose,
          published, pubSpan, hist, done, yield, before, lastOp, prevOp, ret,
          nops, closes>>

----------------------------------------------------------------------------
(* Bounds of the model *)

MaxLen == 2
MaxOps == 5
MaxWordLen == 3

(* Program constants *)

EOF == "EOF"            \* const EOF rune = -1
TokError == -1
TokWord == 0
NUL == "NUL"            \* rune 0, what ReadRune returns beside an error

Impls == {"bufio", "bufreader"}
Alphabet == {"a", "\n"}
WordAlphabet == {"a", " ", "\t", "\r", "\n"}
SrcErrs == {"EOF", "broken"}

RECURSIVE SeqsUpTo(_, _)
SeqsUpTo(A, n) ==
  IF n = 0 THEN {<<>>}
  ELSE LET S == SeqsUpTo(A, n - 1)
       IN S \cup {Append(s, a) : s \in {t \in S : Len(t) = n - 1}, a \in A}

----------------------------------------------------------------------------
(* pos *)

ZeroPos == [line |-> 0, col |-> 0, pos |-> 0]

Advance(p, r) ==
  IF r = "\n"
  THEN [line |-> p.line + 1, col |-> 0, pos |-> p.pos + 1]
  ELSE [line |-> p.line, col |-> p.col + 1, pos |-> p.pos + 1]

Token(t, v, p, extra) ==
  [type |-> t, value |-> v, line |-> p.line, col |-> p.col, pos |-> p.pos,
   extra |-> extra]

----------------------------------------------------------------------------
(* bufio.Reader over the source: rd runes handed out, last = the latest      *)
(* call was a ReadRune that returned a rune (lastRuneSize >= 0).             *)

NewBufio == [rd |-> 0, last |-> FALSE]

BufioReadRune(b) ==
  IF b.rd < Len(src)
  THEN [c |-> src[b.rd + 1], err |-> "nil", r |-> [rd |-> b.rd + 1, last |-> TRUE]]
  ELSE [c |-> NUL, err |-> srcErr, r |-> [b EXCEPT !.last = FALSE]]

(* A bufio reader whose UnreadRune steps back whatever the latest call was *)
BufioUnreadRuneAlways(b) ==
  IF b.rd > 0 THEN [rd |-> b.rd - 1, last |-> FALSE] ELSE b

(* A bufio reader whose UnreadRune forgets to step back *)
BufioUnreadRuneLost(b) == [b EXCEPT !.last = FALSE]

BufioUnreadRune(b) ==
  IF b.last THEN [rd |-> b.rd - 1, last |-> FALSE] ELSE b

(* bufreader *)

NewBufreader == [r |-> NewBufio, buf |-> <<>>, pos |-> 0, err |-> "nil"]

BrReadRune(br) ==
  IF br.err # "nil" THEN [c |-> NUL, err |-> br.err, r |-> br, panic |-> FALSE]
  ELSE IF br.pos < 0 THEN [c |-> NUL, err |-> "nil", r |-> br, panic |-> TRUE]
  ELSE IF br.pos < Len(br.buf)
  THEN [c |-> br.buf[br.pos + 1], err |-> "nil",
        r |-> [br EXCEPT !.pos = @ + 1], panic |-> FALSE]
  ELSE LET x == BufioReadRune(br.r)
       IN IF x.err # "nil"
          THEN [c |-> x.c, err |-> x.err,
                r |-> [br EXCEPT !.r = x.r, !.err = x.err], panic |-> FALSE]
          ELSE [c |-> x.c, err |-> "nil",
                r |-> [br EXCEPT !.r = x.r, !.buf = Append(@, x.c),
                                 !.pos = Len(br.buf) + 1],
                panic |-> FALSE]

BrUnreadRune(br) == [br EXCEPT !.pos = @ - 1]

BrIgnore(br) ==
  [br EXCEPT !.pos = 0,
             !.buf = IF Len(@) > 0 THEN <<@[Len(@)]>> ELSE @]

(* lex.r.ReadRune() / lex.r.UnreadRune() of the engine that runs *)

ReadRune(l) ==
  IF impl = "bufio"
  THEN LET x == BufioReadRune(l.r)
       IN [c |-> x.c, err |-> x.err, r |-> x.r, panic |-> FALSE]
  ELSE BrReadRune(l.r)

UnreadRune(l) ==
  IF impl = "bufio" THEN BufioUnreadRune(l.r) ELSE BrUnreadRune(l.r)

----------------------------------------------------------------------------
(* The engine.  Each call maps the lexer l to an outcome: the lexer after   *)
(* it, what it returned, the tokens it sent, and whether it panicked.       *)

NewLexer ==
  [r |-> IF impl = "bufio" THEN NewBufio ELSE NewBufreader,
   eof |-> FALSE, value |-> <<>>,
   pos |-> ZeroPos, prevPos |-> IF impl = "bufio" THEN ZeroPos ELSE <<>>,
   tokenPos |-> ZeroPos]

Outcome(l, r, out, panic) == [lex |-> l, ret |-> r, out |-> out, panic |-> panic]

(* An errorf that stamps the token with the start-position marker *)
ErrorfAtTokenPos(l, t, msg) ==
  Outcome(l, "nil", <<Token(t, <<msg>>, l.tokenPos, "nil")>>, FALSE)

Errorf(l, t, msg) ==
  Outcome(l, "nil", <<Token(t, <<msg>>, l.pos, "nil")>>, FALSE)

SavePrev(l) ==
  IF impl = "bufio" THEN l.pos ELSE Append(l.prevPos, l.pos)

Next(l) ==
  LET x == ReadRune(l)
  IN IF x.panic THEN Outcome(l, "nil", <<>>, TRUE)
     ELSE IF x.err # "nil"
     THEN Outcome([l EXCEPT !.r = x.r, !.value = Append(@, x.c), !.eof = TRUE],
                  EOF,
                  IF x.err # "EOF" THEN Errorf(l, TokError, x.err).out ELSE <<>>,
                  FALSE)
     ELSE Outcome([l EXCEPT !.r = x.r, !.prevPos = SavePrev(l),
                            !.pos = Advance(l.pos, x.c),
                            !.value = Append(@, x.c)],
                  x.c, <<>>, FALSE)

Backup(l) ==
  LET u == [l EXCEPT !.r = UnreadRune(l)]
  IN IF Len(l.value) = 0 THEN Outcome(u, "nil", <<>>, TRUE)
     ELSE LET v == [u EXCEPT !.value = SubSeq(@, 1, Len(@) - 1)]
          IN IF impl = "bufio"
             THEN Outcome([v EXCEPT !.pos = l.prevPos], "nil", <<>>, FALSE)
             ELSE IF Len(l.prevPos) = 0 THEN Outcome(v, "nil", <<>>, TRUE)
             ELSE Outcome([v EXCEPT !.pos = l.prevPos[Len(l.prevPos)],
                                    !.prevPos = SubSeq(@, 1, Len(@) - 1)],
                          "nil", <<>>, FALSE)

Peek(l) ==
  LET n == Next(l)
  IN IF n.panic THEN n
     ELSE LET b == Backup(n.lex)
          IN Outcome(b.lex, n.ret, n.out, b.panic)

(* An ignore that leaves the Scan Buffer as it was *)
IgnoreKeepsValue(l) ==
  Outcome([l EXCEPT !.tokenPos = l.pos,
                    !.r = IF impl = "bufio" THEN @ ELSE BrIgnore(@)],
          "nil", <<>>, FALSE)

(* An ignore that leaves the start-position marker where it was *)
IgnoreKeepsTokenPos(l) ==
  Outcome([l EXCEPT !.value = <<>>,
                    !.r = IF impl = "bufio" THEN @ ELSE BrIgnore(@)],
          "nil", <<>>, FALSE)

Ignore(l) ==
  Outcome([l EXCEPT !.tokenPos = l.pos, !.value = <<>>,
                    !.r = IF impl = "bufio" THEN @ ELSE BrIgnore(@)],
          "nil", <<>>, FALSE)

EmitExtra(l, t, extra) ==
  Outcome(Ignore(l).lex, "nil", <<Token(t, l.value, l.tokenPos, extra)>>, FALSE)

Emit(l, t) == EmitExtra(l, t, "nil")

----------------------------------------------------------------------------
(* Bookkeeping shared by the history variables *)

Chars(h) == SelectSeq(h, LAMBDA c : c # EOF)

Front(s) == SubSeq(s, 1, Len(s) - 1)

Snapshot(l) == [pos |-> l.pos, value |-> l.value]

(* A channel with room for one token (make(chan Token, 1)): the producer *)
(* goes on while the token waits in the buffer                            *)
CallBuffered(o, op, nextpc) ==
  /\ o.out = <<>> \/ tokens = <<>>
  /\ lex' = o.lex
  /\ tokens' = tokens \o o.out
  /\ published' = published \o o.out
  /\ pubSpan' = pubSpan \o [i \in 1..Len(o.out) |->
                              [text |-> Chars(hist), before |-> done]]
  /\ pc' = IF o.panic THEN "panic" ELSE nextpc
  /\ lastOp' = op
  /\ prevOp' = lastOp
  /\ nops' = nops + 1
  /\ UNCHANGED <<impl, src, srcErr, closed, received, sawClose, closes>>

(* A send that does not wait for the consumer: a token still on offer is *)
(* overwritten by the next one                                           *)
CallNoBlock(o, op, nextpc) ==
  /\ lex' = o.lex
  /\ tokens' = IF o.out # <<>> THEN o.out ELSE tokens
  /\ published' = published \o o.out
  /\ pubSpan' = pubSpan \o [i \in 1..Len(o.out) |->
                              [text |-> Chars(hist), before |-> done]]
  /\ pc' = IF o.panic THEN "panic" ELSE nextpc
  /\ lastOp' = op
  /\ prevOp' = lastOp
  /\ nops' = nops + 1
  /\ UNCHANGED <<impl, src, srcErr, closed, received, sawClose, closes>>

(* The producer goroutine makes engine call op with outcome o and goes on  *)
(* at nextpc.  A send on the unbuffered channel completes only when the    *)
(* consumer takes the token: until then the producer makes no step.        *)
Call(o, op, nextpc) ==
  /\ tokens = <<>>
  /\ lex' = o.lex
  /\ tokens' = o.out
  /\ published' = published \o o.out
  /\ pubSpan' = pubSpan \o [i \in 1..Len(o.out) |->
                              [text |-> Chars(hist), before |-> done]]
  /\ pc' = IF o.panic THEN "panic" ELSE nextpc
  /\ lastOp' = op
  /\ prevOp' = lastOp
  /\ nops' = nops + 1
  /\ UNCHANGED <<impl, src, srcErr, closed, received, sawClose, closes>>

DoNext(o, nextpc) ==
  /\ Call(o, "next", nextpc)
  /\ hist' = Append(hist, o.ret)
  /\ before' = Snapshot(lex)
  /\ ret' = o.ret
  /\ UNCHANGED <<done, yield>>

DoPeek(o, nextpc) ==
  /\ Call(o, "peek", nextpc)
  /\ before' = Snapshot(lex)
  /\ ret' = o.ret
  /\ UNCHANGED <<hist, done, yield>>

DoBackup(o, nextpc) ==
  /\ Call(o, "backup", nextpc)
  /\ hist' = Front(hist)
  /\ UNCHANGED <<done, yield, before, ret>>

DoIgnore(o, nextpc) ==
  /\ Call(o, "ignore", nextpc)
  /\ hist' = <<>>
  /\ done' = done \o Chars(hist)
  /\ yield' = yield \o lex.value
  /\ UNCHANGED <<before, ret>>

DoEmit(o, nextpc) ==
  /\ Call(o, "emit", nextpc)
  /\ hist' = <<>>
  /\ done' = done \o Chars(hist)
  /\ yield' = yield \o o.out[1].value
  /\ UNCHANGED <<before, ret>>

DoErrorf(o, nextpc) ==
  /\ Call(o, "errorf", nextpc)
  /\ UNCHANGED <<hist, done, yield, before, ret>>

----------------------------------------------------------------------------
(* Run: the driver loop, and the consumer of the channel it returns *)

Entry(fn) ==
  CASE fn = "lexSkipSpaces" -> "skip_next"
    [] fn = "lexWord" -> "word_peek"
    [] OTHER -> "run"

(* A loop condition that does not look at the end-of-source flag *)
LoopCondNoEof == state # "nil"

LoopCond == state # "nil" /\ ~lex.eof

Invoke ==
  /\ pc = "loop" /\ tokens = <<>>
  /\ LoopCond
  /\ pc' = Entry(state)
  /\ UNCHANGED <<impl, src, srcErr, lex, tokens, closed, state, received, sawClose,
                 published, pubSpan, hist, done, yield, before, lastOp, prevOp, ret,
                 nops, closes>>

(* A driver that leaves the loop without closing the channel *)
CloseForgotten ==
  /\ pc = "loop" /\ tokens = <<>>
  /\ ~LoopCond
  /\ pc' = "done"
  /\ UNCHANGED <<impl, src, srcErr, lex, tokens, closed, state, received, sawClose,
                 published, pubSpan, hist, done, yield, before, lastOp, prevOp, ret,
                 nops, closes>>

Close ==
  /\ pc = "loop" /\ tokens = <<>>
  /\ ~LoopCond
  /\ closed' = TRUE
  /\ closes' = closes + 1
  /\ pc' = "done"
  /\ UNCHANGED <<impl, src, srcErr, lex, tokens, state, received, sawClose,
                 published, pubSpan, hist, done, yield, before, lastOp, prevOp, ret,
                 nops>>

Recv ==
  /\ tokens # <<>>
  /\ received' = Append(received, tokens[1])
  /\ tokens' = <<>>
  /\ UNCHANGED <<impl, src, srcErr, lex, closed, state, pc, sawClose,
                 published, pubSpan, hist, done, yield, before, lastOp, prevOp, ret,
                 nops, closes>>

RecvClosed ==
  /\ tokens = <<>> /\ closed /\ ~sawClose
  /\ sawClose' = TRUE
  /\ UNCHANGED <<impl, src, srcErr, lex, tokens, closed, state, pc, received,
                 published, pubSpan, hist, done, yield, before, lastOp, prevOp, ret,
                 nops, closes>>

----------------------------------------------------------------------------
(* Any state function: while it runs it may make any engine call, backup() *)
(* only right after a next(); it returns another state function or nil.    *)

SomeNext ==
  /\ pc = "run" /\ nops < MaxOps
  /\ DoNext(Next(lex), "run")
  /\ UNCHANGED state

SomePeek ==
  /\ pc = "run" /\ nops < MaxOps
  /\ DoPeek(Peek(lex), "run")
  /\ UNCHANGED state

SomeBackup ==
  /\ pc = "run" /\ nops < MaxOps
  /\ lastOp = "next"
  /\ DoBackup(Backup(lex), "run")
  /\ UNCHANGED state

SomeIgnore ==
  /\ pc = "run" /\ nops < MaxOps
  /\ DoIgnore(Ignore(lex), "run")
  /\ UNCHANGED state

SomeEmitExtra ==
  /\ pc = "run" /\ nops < MaxOps
  /\ DoEmit(EmitExtra(lex, TokWord, "extra"), "run")
  /\ UNCHANGED state

SomeErrorf ==
  /\ pc = "run" /\ nops < MaxOps
  /\ DoErrorf(Errorf(lex, TokError, "bad"), "run")
  /\ UNCHANGED state

SomeReturnErrorf ==
  /\ pc = "run" /\ nops < MaxOps
  /\ LET o == Errorf(lex, TokError, "bad")
     IN DoErrorf(o, "loop") /\ state' = o.ret

SomeReturn ==
  /\ pc = "run" /\ tokens = <<>>
  /\ \E nxt \in {"fn", "nil"} : state' = nxt
  /\ pc' = "loop"
  /\ UNCHANGED <<impl, src, srcErr, lex, tokens, closed, received, sawClose,
                 published, pubSpan, hist, done, yield, before, lastOp, prevOp, ret,
                 nops, closes>>

InitCommon ==
  /\ impl \in Impls
  /\ srcErr \in SrcErrs
  /\ lex = NewLexer
  /\ tokens = <<>>
  /\ closed = FALSE
  /\ pc = "loop"
  /\ received = <<>>
  /\ sawClose = FALSE
  /\ published = <<>>
  /\ pubSpan = <<>>
  /\ hist = <<>>
  /\ done = <<>>
  /\ yield = <<>>
  /\ before = Snapshot(NewLexer)
  /\ lastOp = "none"
  /\ prevOp = "none"
  /\ ret = "nil"
  /\ nops = 0
  /\ closes = 0

Init ==
  /\ src \in SeqsUpTo(Alphabet, MaxLen)
  /\ state \in {"fn", "nil"}
  /\ InitCommon

Next_ ==
  \/ Invoke
  \/ Close
  \/ Recv
  \/ RecvClosed
  \/ SomeNext
  \/ SomePeek
  \/ SomeBackup
  \/ SomeIgnore
  \/ SomeEmitExtra
  \/ SomeErrorf
  \/ SomeReturnErrorf
  \/ SomeReturn

Spec == Init /\ [][Next_]_vars

----------------------------------------------------------------------------
(* The tests' word machine: lexSkipSpaces and lexWord of src/lex_test.go *)

isSpace(r) == r = " " \/ r = "\t" \/ r = "\r" \/ r = "\n"

SkipNext ==
  /\ pc = "skip_next"
  /\ LET o == Next(lex)
     IN DoNext(o, IF isSpace(o.ret) THEN "skip_next" ELSE "skip_backup")
  /\ UNCHANGED state

SkipBackup ==
  /\ pc = "skip_backup"
  /\ DoBackup(Backup(lex), "skip_ignore")
  /\ UNCHANGED state

SkipIgnore ==
  /\ pc = "skip_ignore"
  /\ DoIgnore(Ignore(lex), "loop")
  /\ state' = "lexWord"

WordPeek ==
  /\ pc = "word_peek"
  /\ LET o == Peek(lex)
     IN DoPeek(o, IF isSpace(o.ret) THEN "word_emit_space"
                  ELSE IF o.ret = EOF THEN "word_emit_eof"
                  ELSE "word_next")
  /\ UNCHANGED state

WordEmitSpace ==
  /\ pc = "word_emit_space"
  /\ DoEmit(Emit(lex, TokWord), "loop")
  /\ state' = "lexSkipSpaces"

WordEmitEOF ==
  /\ pc = "word_emit_eof"
  /\ DoEmit(Emit(lex, TokWord), "loop")
  /\ state' = "nil"

WordNext ==
  /\ pc = "word_next"
  /\ DoNext(Next(lex), "word_peek")
  /\ UNCHANGED state

(* The inputs of TestWordReader, TestBrokenReader and TestTokenString *)

TestWordInput ==
  <<" ", " ", "f", "o", "o", " ", "b", "a", "r", "\n",
    " ", " ", " ", " ", "b", "a", "z", " ", " ", " ", " ">>

TestBrokenInput == <<"f", "o", "o", " ", "b", "a", "r">>

TestTokenStringInput == <<"\n", " ", "\n", "f", "o", "o">>

InitWord ==
  /\ src \in SeqsUpTo(WordAlphabet, MaxWordLen)
             \cup {TestWordInput, TestBrokenInput, TestTokenStringInput}
  /\ state = "lexSkipSpaces"
  /\ InitCommon

NextWord ==
  \/ Invoke
  \/ Close
  \/ Recv
  \/ RecvClosed
  \/ SkipNext
  \/ SkipBackup
  \/ SkipIgnore
  \/ WordPeek
  \/ WordEmitSpace
  \/ WordEmitEOF
  \/ WordNext

SpecWord == InitWord /\ [][NextWord]_vars

----------------------------------------------------------------------------
(* What the properties are stated with: the position of the end of a text, *)
(* counted from the text alone.                                             *)

Newlines(s) == Cardinality({i \in DOMAIN s : s[i] = "\n"})

LastNewline(s) ==
  LET N == {i \in DOMAIN s : s[i] = "\n"}
  IN IF N = {} THEN 0 ELSE CHOOSE i \in N : \A j \in N : j <= i

PosAfter(s) ==
  [line |-> Newlines(s), col |-> Len(s) - LastNewline(s), pos |-> Len(s)]

TokenPos(tok) == [line |-> tok.line, col |-> tok.col, pos |-> tok.pos]

IsPrefix(s, t) == Len(s) <= Len(t) /\ s = SubSeq(t, 1, Len(s))

----------------------------------------------------------------------------
(* C1: the text of every non-error token is exactly the characters next()  *)
(* returned since the previous emit/ignore and backup() did not undo, in   *)
(* order, also when next() returned the end-of-source sentinel in between. *)
TokenTextIsSpan ==
  \A i \in DOMAIN published :
    published[i].type # TokError => published[i].value = pubSpan[i].text

(* C2: every non-error token carries the position of the start of its     *)
(* span: offset = the number of characters emitted or ignored before it,  *)
(* line = the newlines among them, column = those after the last newline. *)
TokenPosIsSpanStart ==
  impl = "bufio" =>
    \A i \in DOMAIN published :
      published[i].type # TokError =>
        TokenPos(published[i]) = PosAfter(pubSpan[i].before)

(* C3: the consumer receives exactly the tokens the producer published,   *)
(* in order, none dropped, none duplicated: what it has received is       *)
(* always the published sequence less the one token a blocked send still  *)
(* offers, and all of it once it has seen the close.                      *)
ChannelIsFIFO ==
  /\ Len(tokens) <= 1
  /\ received \o tokens = published
  /\ sawClose => received = published

ChannelIsFIFOWitness ==
  /\ sawClose
  /\ Len(received) >= 3
  /\ \E i \in DOMAIN received : received[i].type = TokError
  /\ \E i \in DOMAIN received : received[i].type = TokWord /\ received[i].value # <<>>

(* C4: an error token is the last token of the stream: nothing is        *)
(* published after it; and the word machine over a source that yields     *)
(* "foo bar" and then fails delivers "foo", one error token at offset 7,  *)
(* and the close.                                                         *)
ErrorTokenIsLast ==
  impl = "bufio" =>
    /\ \A i \in DOMAIN published :
         published[i].type = TokError => i = Len(published)
    /\ (src = TestBrokenInput /\ srcErr = "broken" /\ sawClose) =>
         /\ Len(received) = 2
         /\ received[1] = Token(TokWord, <<"f", "o", "o">>, ZeroPos, "nil")
         /\ received[2].type = TokError /\ received[2].pos = 7


(* The maximal runs of non-space characters of s, as the tokens expected  *)
(* for them, in input order.                                              *)

WordStarts(s) ==
  {i \in DOMAIN s : ~isSpace(s[i]) /\ (i = 1 \/ isSpace(s[i - 1]))}

WordEnd(s, i) ==
  CHOOSE j \in i..Len(s) :
    /\ \A k \in i..j : ~isSpace(s[k])
    /\ j = Len(s) \/ isSpace(s[j + 1])

WordAt(s, i) ==
  Token(TokWord, SubSeq(s, i, WordEnd(s, i)), PosAfter(SubSeq(s, 1, i - 1)), "nil")

RECURSIVE Ascending(_)
Ascending(S) ==
  IF S = {} THEN <<>>
  ELSE LET m == CHOOSE x \in S : \A y \in S : x <= y
       IN <<m>> \o Ascending(S \ {m})

Words(s) ==
  LET idx == Ascending(WordStarts(s))
  IN [k \in 1..Len(idx) |-> WordAt(s, idx[k])]

(* C5: over a source that ends normally the word machine delivers exactly *)
(* one token per maximal run of non-space characters, in input order,     *)
(* with the run as text and the zero-based position of its first          *)
(* character, and then the close, with no further and no empty token.     *)
WordMachineTokens ==
  (impl = "bufio" /\ srcErr = "EOF") =>
    /\ pc # "panic"
    /\ IsPrefix(published, Words(src))
    /\ pc = "done" => published = Words(src)
    /\ sawClose => received = Words(src)

WordMachineTokensWitness ==
  /\ impl = "bufio" /\ srcErr = "EOF"
  /\ src = TestWordInput
  /\ sawClose
  /\ Len(received) = 3

(* C6: conservation of characters: when the scan has ended at end of     *)
(* source with everything consumed emitted or ignored, the emitted texts *)
(* and the discarded spans, concatenated in order, are the input.        *)
Conservation ==
  (pc = "done" /\ lex.eof /\ Chars(hist) = <<>>) => yield = src

(* C7: next() immediately followed by backup() leaves Position and Scan  *)
(* Buffer as they were before the next(), whether next() returned a      *)
(* character or the end-of-source sentinel.                               *)
BackupUndoesNext ==
  (lastOp \in {"backup", "peek"} /\ pc # "panic") => Snapshot(lex) = before

(* C8: peek() does not consume: the next() or peek() that immediately    *)
(* follows a peek(), or a next() undone by backup(), returns what that   *)
(* call returned.                                                         *)
PeekDoesNotConsume ==
  [][(lastOp \in {"peek", "backup"} /\ lastOp' \in {"next", "peek"})
       => ret' = ret]_vars

PeekDoesNotConsumeWitness ==
  /\ impl = "bufreader"
  /\ \E i \in DOMAIN published : published[i].type = TokWord
  /\ prevOp = "peek" /\ lastOp = "next"
  /\ ret \in Alphabet

(* C9: the current Position is the position after P, the characters      *)
(* next() returned and backup() did not undo: offset = Len(P), line =    *)
(* the newlines of P, column = the characters after its last newline.    *)
PositionInvariant ==
  (impl = "bufio" /\ pc # "panic") => lex.pos = PosAfter(done \o Chars(hist))

(* C10: the driver closes the stream at most once, and only when the     *)
(* state function has returned and either returned nil or end of source  *)
(* was observed, in which case closing is all it does; it invokes no     *)
(* state function then, and nothing is published after the close.        *)
DriverCloses ==
  /\ [](closes <= 1 /\ (closed <=> closes = 1) /\ (closed <=> pc = "done"))
  /\ [][closes' # closes => (pc = "loop" /\ (state = "nil" \/ lex.eof))]_vars
  /\ [][(pc = "loop" /\ (state = "nil" \/ lex.eof) /\ pc' # pc)
          => closes' = closes + 1]_vars
  /\ [][(pc \in {"loop", "done"} /\ pc' \notin {"loop", "done"})
          => (pc = "loop" /\ state # "nil" /\ ~lex.eof)]_vars
  /\ [][closed => (closed' /\ published' = published)]_vars

DriverClosesWitness ==
  /\ closed /\ closes = 1
  /\ lex.eof /\ state = "fn"
  /\ published # <<>>

(* C11: a source-read failure is reported exactly once: over the whole   *)
(* scan at most one error token carries the failure message, however     *)
(* often next() or peek() is called after the failure, and it carries    *)
(* the current position, the number of characters consumed.              *)
ReadFailures ==
  {i \in DOMAIN published :
     published[i].type = TokError /\ published[i].value = <<srcErr>>}

ReadFailureReportedOnce ==
  /\ Cardinality(ReadFailures) <= 1
  /\ \A i \in ReadFailures :
       published[i].pos = Len(pubSpan[i].before) + Len(pubSpan[i].text)

----------------------------------------------------------------------------
(* A state function that breaks the contract: backup() with nothing to   *)
(* undo, that is before any next() or with no next() since the previous  *)
(* backup() (peek() ends with a backup() of its own).                    *)

MisuseBackup ==
  /\ pc = "run" /\ nops < MaxOps
  /\ lastOp # "next"
  /\ DoBackup(Backup(lex), "run")
  /\ UNCHANGED state

NextMisuse ==
  \/ Invoke
  \/ Close
  \/ Recv
  \/ RecvClosed
  \/ SomeNext
  \/ SomePeek
  \/ SomeBackup
  \/ MisuseBackup
  \/ SomeIgnore
  \/ SomeEmitExtra
  \/ SomeErrorf
  \/ SomeReturnErrorf
  \/ SomeReturn

SpecMisuse == Init /\ [][NextMisuse]_vars

(* C12: backup() with nothing to undo fails with an internal error: it   *)
(* never returns normally.                                               *)
BackupWithoutNextFails ==
  (lastOp = "backup" /\ prevOp # "next") => pc = "panic"

(* C13: emit() and ignore() do not affect the source: the first next()   *)
(* after one returns the input character that follows the last character *)
(* consumed and not backed up, or the sentinel if there is none.         *)
NextAfterEmitReadsOn ==
  (prevOp \in {"emit", "ignore"} /\ lastOp = "next" /\ pc # "panic") =>
    ret = IF Len(done) < Len(src) THEN src[Len(done) + 1] ELSE EOF

(* C14: errorf publishes exactly one token, of the given type, with the  *)
(* message as text and the current position (not the start marker), and  *)
(* leaves                                                                *)
(* the engine (Scan Buffer, Position, start marker, end-of-source flag)  *)
(* as it was; it returns nil, and once a state function has returned     *)
(* that, the driver's only step is to close the stream.                  *)
ErrorfContract ==
  /\ [][(lastOp' = "errorf" /\ nops' # nops) =>
          /\ lex' = lex
          /\ published' =
               Append(published, Token(TokError, <<"bad">>, lex.pos, "nil"))
          /\ pc' = "loop" => state' = "nil"]_vars
  /\ [][(lastOp = "errorf" /\ pc = "loop" /\ state = "nil" /\ pc' # pc) =>
          (pc' = "done" /\ closed')]_vars

ErrorfContractWitness ==
  /\ lastOp = "errorf"
  /\ closed /\ state = "nil" /\ ~lex.eof
  /\ lex.value # <<>> /\ lex.pos # lex.tokenPos
  /\ published[Len(published)].pos = lex.pos.pos

(* C15: after every emit() and every ignore() the Scan Buffer is empty   *)
(* and the start marker is the current position, which the call did not  *)
(* change; ignore() publishes nothing, emit() exactly one token, made of *)
(* the Scan Buffer and the start marker as they were.                    *)
EmitIgnoreReset ==
  /\ [](lastOp \in {"emit", "ignore"} =>
          (lex.value = <<>> /\ lex.tokenPos = lex.pos))
  /\ [][(lastOp' \in {"emit", "ignore"} /\ nops' # nops) =>
          /\ lex'.pos = lex.pos
          /\ lastOp' = "ignore" => published' = published
          /\ lastOp' = "emit" =>
               /\ Len(published') = Len(published) + 1
               /\ SubSeq(published', 1, Len(published)) = published
               /\ LET tok == published'[Len(published')]
                  IN /\ tok.type = TokWord
                     /\ tok.value = lex.value
                     /\ TokenPos(tok) = lex.tokenPos]_vars

EmitIgnoreResetWitness ==
  /\ lastOp = "emit" /\ prevOp = "ignore"
  /\ lex.pos.pos > 0
  /\ lex.value = <<>> /\ lex.tokenPos = lex.pos
  /\ published[Len(published)].pos = lex.pos.pos
  /\ \E i \in DOMAIN published : published[i].value # <<>>

(* C16: once next() has returned the end-of-source sentinel (the engine  *)
(* sets its eof flag in that same branch), every later next() and peek() *)
(* returns the sentinel, whatever was called in between.                 *)
SentinelIsSticky ==
  [][(lex.eof /\ lastOp' \in {"next", "peek"} /\ nops' # nops)
       => ret' = EOF]_vars

SentinelIsStickyWitness ==
  /\ lastOp = "next" /\ ret = EOF
  /\ prevOp = "backup"
  /\ src # <<>>
  /\ Len(hist) >= 2 /\ hist[Len(hist) - 1] = EOF

(* C17: no cancellation: while a token is on offer and the consumer does *)
(* not receive it, the producer makes no step (no engine call, no return,*)
(* no close), and the only step that ends the wait is the consumer's     *)
(* receive of that token.                                                *)
ProducerBlocksOnSend ==
  [][tokens # <<>> =>
       /\ lex' = lex /\ pc' = pc /\ state' = state /\ nops' = nops
       /\ closed' = closed /\ published' = published
       /\ tokens' # tokens =>
            (tokens' = <<>> /\ received' = Append(received, tokens[1]))]_vars

ProducerBlocksOnSendWitness ==
  /\ tokens # <<>> /\ ~closed
  /\ lastOp = "emit" /\ pc = "run"
  /\ received # <<>>
  /\ ~lex.eof

----------------------------------------------------------------------------
(* The word machine under fair scheduling: the producer goroutine runs   *)
(* whenever it can, and the consumer keeps receiving until the close.    *)

ProducerWord ==
  \/ Invoke
  \/ Close
  \/ SkipNext
  \/ SkipBackup
  \/ SkipIgnore
  \/ WordPeek
  \/ WordEmitSpace
  \/ WordEmitEOF
  \/ WordNext

Consumer ==
  \/ Recv
  \/ RecvClosed

SpecWordFair ==
  /\ InitWord
  /\ [][NextWord]_vars
  /\ WF_vars(ProducerWord)
  /\ WF_vars(Consumer)

(* C18: termination: for every finite input, also one that ends in a     *)
(* read failure, the scan of the word machine with a consumer that keeps *)
(* receiving ends with the close of the stream.                          *)
WordScanTerminates == (impl = "bufio") => <>sawClose

WordScanTerminatesWitness ==
  /\ impl = "bufio"
  /\ sawClose
  /\ src = TestBrokenInput /\ srcErr = "broken"
  /\ Len(received) = 3

----------------------------------------------------------------------------
(* C19: buffer/position consistency: between engine calls the Scan       *)
(* Buffer is as long as the current offset is past the start marker's,   *)
(* and holds the input characters at the offsets from the start marker   *)
(* up to the current offset, also after end of source.                   *)
BufferPositionConsistent ==
  pc # "panic" =>
    /\ Len(lex.value) = lex.pos.pos - lex.tokenPos.pos
    /\ lex.value = SubSeq(src, lex.tokenPos.pos + 1, lex.pos.pos)

(* C20: peek() is always safe: under contract-valid use it completes     *)
(* without an internal failure, on either engine, also as the first call *)
(* on an empty input and at end of source right after emit() or ignore().*)
PeekNeverFails ==
  ~(lastOp = "peek" /\ pc = "panic")

====
